---- MODULE Spec2Model ----
(***************************************************************************)
(* Weekly-Meal-Plan: the Stripe webhook handler (promotional week counter  *)
(* kept in subscription metadata) and the checkout handler (customer       *)
(* lookup / creation, catalog, subscription creation).                     *)
(*                                                                         *)
(* All durable state lives on the billing platform.  A handler run is a    *)
(* sequence of atomic steps, one per `await`: the code between two awaits  *)
(* runs without interruption, and the platform serves each call at one     *)
(* instant.  Runs of different requests interleave at the awaits.          *)
(*                                                                         *)
(* The webhook handler is the one of stripe-webhook.js lines 1-126 (the    *)
(* file goes on with an older, log-only copy and a payment-intent handler);*)
(* the checkout handler is netlify/functions/create-subscription.js, and   *)
(* the promotional subscription the webhook serves is the one the          *)
(* promotional checkout (part_001) creates.                                *)
(***************************************************************************)
EXTENDS Integers, Sequences, FiniteSets, TLC

(***************************************************************************)
(* Bounds of the model.                                                    *)
(***************************************************************************)
MaxDeliveries == 5      \* verified successful-payment events delivered
MaxCheckouts == 2       \* checkout requests delivered
MaxOtherProducts == 10  \* products the merchant adds besides the plan product

Handlers == {1, 2}      \* webhook invocations that may be in flight together
Checkouts == {1, 2}     \* checkout invocations that may be in flight together

(***************************************************************************)
(* Program constants.                                                      *)
(***************************************************************************)
RegularUnitAmount == 2000   \* stripe-webhook.js:67
DefaultPromoWeeks == 4      \* stripe-webhook.js:50
PromoUnitAmount   == 1000   \* part_001:113
InlineUnitAmount  == 2000   \* part_000:138
ReceivedStatus    == 200    \* stripe-webhook.js:113
ProcessingErrorStatus == 500    \* stripe-webhook.js:121

VARIABLES
    sub,          \* the subscription object held by the platform
    wh,           \* wh[h]: the webhook invocation running in slot h
    last,         \* the webhook request answered last, with its response
    deliveries,   \* verified successful-payment events delivered so far
    hist,         \* history of the webhook runs (what the claims talk about)
    env,          \* process.env of the deployment
    customers,    \* the customer records held by the platform, oldest first
    products,     \* the product records held by the platform, oldest first
    prices,       \* the price records held by the platform, oldest first
    subscriptions,\* the subscriptions created by checkouts, oldest first
    coupons,      \* the ids of the coupons held by the platform
    co,           \* co[c]: the checkout invocation running in slot c
    coLast,       \* the checkout request answered last, with its response
    checkouts     \* checkout requests delivered so far

whVars == <<sub, wh, last, deliveries, hist>>

coVars ==
    <<customers, products, prices, subscriptions, coupons, co, coLast,
      checkouts>>

vars == <<whVars, env, coVars>>

(***************************************************************************)
(* JavaScript values.  A string is a sequence of one-character strings; a  *)
(* number is [nan, val], NaN being [nan |-> TRUE, val |-> 0].              *)
(***************************************************************************)
Digits == <<"0", "1", "2", "3", "4", "5", "6", "7", "8", "9">>

IsDigit(c) == \E i \in 1..10 : Digits[i] = c

DigitVal(c) == (CHOOSE i \in 1..10 : Digits[i] = c) - 1

NaN == [nan |-> TRUE, val |-> 0]

Num(n) == [nan |-> FALSE, val |-> n]

RECURSIVE SkipWhitespace(_)
SkipWhitespace(s) ==
    IF s # <<>> /\ Head(s) = " " THEN SkipWhitespace(Tail(s)) ELSE s

RECURSIVE ParseDigits(_, _, _)
\* the value of the longest prefix of digits of s; NaN when s starts with none
ParseDigits(s, acc, any) ==
    IF s # <<>> /\ IsDigit(Head(s))
    THEN ParseDigits(Tail(s), acc * 10 + DigitVal(Head(s)), TRUE)
    ELSE IF any THEN Num(acc) ELSE NaN

\* parseInt(string): leading blanks skipped, an optional sign, then digits up
\* to the first character that is none
ParseInt(s) ==
    LET t == SkipWhitespace(s)
        neg == t # <<>> /\ Head(t) = "-"
        u == IF t # <<>> /\ Head(t) \in {"-", "+"} THEN Tail(t) ELSE t
        r == ParseDigits(u, 0, FALSE)
    IN  IF r.nan THEN NaN ELSE IF neg THEN Num(0 - r.val) ELSE r

RECURSIVE NatToString(_)
NatToString(n) ==
    IF n < 10 THEN <<Digits[n + 1]>>
    ELSE NatToString(n \div 10) \o <<Digits[(n % 10) + 1]>>

\* Number.prototype.toString()
NumToString(x) ==
    IF x.nan THEN <<"N", "a", "N">>
    ELSE IF x.val < 0 THEN <<"-">> \o NatToString(0 - x.val)
    ELSE NatToString(x.val)

JsAdd(x, y) == IF x.nan \/ y.nan THEN NaN ELSE Num(x.val + y.val)

\* x >= y: false as soon as one side is NaN
JsGe(x, y) == ~x.nan /\ ~y.nan /\ x.val >= y.val

\* x || y on numbers: NaN and 0 are falsy
JsOr(x, y) == IF x.nan \/ x.val = 0 THEN y ELSE x

(***************************************************************************)
(* Subscription metadata: a function from the keys present to their        *)
(* values.  A key that is absent reads as undefined.                       *)
(***************************************************************************)
Has(meta, k) == k \in DOMAIN meta

\* parseInt(meta[k]); parseInt(undefined) is NaN
ParseField(meta, k) == IF Has(meta, k) THEN ParseInt(meta[k]) ELSE NaN

\* the platform's metadata update: the keys given are merged into the stored
\* metadata, a key given as null is removed
MergeMetadata(stored, given, nulls) ==
    LET keys == ((DOMAIN stored) \cup (DOMAIN given)) \ nulls
    IN  [k \in keys |-> IF k \in DOMAIN given THEN given[k] ELSE stored[k]]

(***************************************************************************)
(* stripe-webhook.js: the decisions of the handler.                        *)
(***************************************************************************)
EventTypes ==
    {"invoice.payment_succeeded", "customer.subscription.deleted",
     "invoice.payment_failed", "charge.refunded"}

Signatures == {"valid", "invalid", "missing"}

\* (a variant that parses the event without checking the signature)
ConstructEventUnchecked(sig, secretSet) == secretSet

\* stripe.webhooks.constructEvent(body, sig, endpointSecret) returns the event
\* when the header carries a signature made with the endpoint secret, and
\* throws otherwise (no header, a wrong signature, no secret configured)
ConstructEventOk(sig, secretSet) == sig = "valid" /\ secretSet


\* (a variant that takes every subscription for a promotional one)
IsPromotionalAlways(meta) == TRUE

\* subscription.metadata.promotional_weeks_used !== undefined
IsPromotional(meta) == Has(meta, "promotional_weeks_used")

\* (a variant that forgets the increment)
WeeksUsedNoIncrement(meta) == ParseField(meta, "promotional_weeks_used")

\* parseInt(subscription.metadata.promotional_weeks_used) + 1
WeeksUsed(meta) == JsAdd(ParseField(meta, "promotional_weeks_used"), Num(1))

\* parseInt(subscription.metadata.promotional_weeks_total) || 4
TotalPromotionalWeeks(meta) ==
    JsOr(ParseField(meta, "promotional_weeks_total"), Num(DefaultPromoWeeks))

\* (a variant that switches one cycle late)
SwitchesToRegularLate(meta) ==
    LET used == WeeksUsed(meta)
        total == TotalPromotionalWeeks(meta)
    IN  ~used.nan /\ ~total.nan /\ used.val > total.val

\* weeksUsed >= totalPromotionalWeeks
SwitchesToRegular(meta) == JsGe(WeeksUsed(meta), TotalPromotionalWeeks(meta))

\* the unit_amount of the price_data sent when switching
RegularPriceData(meta) == RegularUnitAmount

\* (a variant that clears the plan identifier with the counters)
RegularUpdateClearsPlan(meta) ==
    [hasPrice |-> TRUE,
     unit_amount |-> RegularPriceData(meta),
     given |-> [k \in ((DOMAIN meta) \cup {"price_tier"})
                     \ {"promotional_weeks_used", "promotional_weeks_total",
                        "plan_type"} |->
                  IF k = "price_tier" THEN "regular" ELSE meta[k]],
     nulls |-> {"promotional_weeks_used", "promotional_weeks_total",
                "plan_type"}]

\* the arguments of subscriptions.update when switching to regular pricing:
\* the price is replaced, the metadata read earlier is sent back with the two
\* counters null and price_tier 'regular'
RegularUpdate(meta) ==
    [hasPrice |-> TRUE,
     unit_amount |-> RegularPriceData(meta),
     given |-> [k \in ((DOMAIN meta) \cup {"price_tier"})
                     \ {"promotional_weeks_used", "promotional_weeks_total"} |->
                  IF k = "price_tier" THEN "regular" ELSE meta[k]],
     nulls |-> {"promotional_weeks_used", "promotional_weeks_total"}]

\* (a variant that sends the regular price with every counter update)
CounterUpdateWithPrice(meta) ==
    [hasPrice |-> TRUE,
     unit_amount |-> RegularUnitAmount,
     given |-> [k \in (DOMAIN meta) \cup {"promotional_weeks_used"} |->
                  IF k = "promotional_weeks_used"
                  THEN NumToString(WeeksUsed(meta)) ELSE meta[k]],
     nulls |-> {}]

\* the arguments of subscriptions.update otherwise: the metadata read earlier
\* is sent back with promotional_weeks_used: weeksUsed.toString()
CounterUpdate(meta) ==
    [hasPrice |-> FALSE,
     unit_amount |-> 0,
     given |-> [k \in (DOMAIN meta) \cup {"promotional_weeks_used"} |->
                  IF k = "promotional_weeks_used"
                  THEN NumToString(WeeksUsed(meta)) ELSE meta[k]],
     nulls |-> {}]

\* the update the handler sends for the metadata it retrieved
UpdateFor(meta) ==
    IF SwitchesToRegular(meta) THEN RegularUpdate(meta) ELSE CounterUpdate(meta)

\* the platform applies subscriptions.update(id, upd)
ApplyUpdate(s, upd) ==
    [s EXCEPT !.unit_amount = IF upd.hasPrice THEN upd.unit_amount ELSE @,
              !.meta = MergeMetadata(@, upd.given, upd.nulls)]

(***************************************************************************)
(* State of one webhook invocation, and the record of an answered request. *)
(***************************************************************************)
NoMeta == [k \in {} |-> <<>>]

InvoiceEvents == {"invoice.payment_succeeded", "invoice.payment_failed"}

\* a webhook request: the HTTP method, the stripe-signature header, and the
\* event in the body (its type, whether its invoice names a subscription;
\* only an invoice has that field).  A GET request has no body.
Requests ==
    {r \in [method : {"POST"}, sig : Signatures, etype : EventTypes,
            hasSub : BOOLEAN] : r.hasSub => r.etype \in InvoiceEvents}
    \cup [method : {"GET"}, sig : Signatures, etype : {"none"},
          hasSub : {FALSE}]

PaidRequest ==
    [method |-> "POST", sig |-> "valid",
     etype |-> "invoice.payment_succeeded", hasSub |-> TRUE]

\* the response to req, and the platform calls made to produce it; threw:
\* the call whose rejection the catch of lines 118-125 turned into the
\* response
Answer(req, calls, code) ==
    [req |-> req, calls |-> calls, status |-> code, threw |-> ""]

Thrown(req, calls, call) ==
    [Answer(req, calls, ProcessingErrorStatus) EXCEPT !.threw = call]

NoAnswer == Answer(PaidRequest, {}, 0)

Idle == [pc |-> "idle", req |-> PaidRequest, again |-> FALSE, snap |-> NoMeta]

\* a successful-payment event for the subscription was handled to the end;
\* again: it is the re-delivery of an event already handled to the end
Applied(h, again) ==
    [h EXCEPT !.events = IF again THEN @ ELSE @ + 1,
              !.redelivered = @ \/ again]

(***************************************************************************)
(* Initial state: one promotional subscription as the promotional checkout *)
(* (part_001) creates it.  regular_price_amount is free-form metadata that *)
(* the platform stores per subscription; the handler receives whatever     *)
(* value is stored there.                                                  *)
(***************************************************************************)
CheckoutRegularAmount == <<"2", "0", "0", "0">>     \* part_001:130

RegularAmounts == {CheckoutRegularAmount, <<"2", "5", "0", "0">>}

NewSubscription(amount) ==
    [status |-> "active",
     unit_amount |-> PromoUnitAmount,
     meta |-> [customer_email |-> "a@x.com",
               customer_name |-> "A",
               plan_type |-> "weekly-meal-plan",
               promotional_weeks_used |-> <<"0">>,
               promotional_weeks_total |-> <<"4">>,
               regular_price_amount |-> amount]]

\* metadata is free-form text on the platform (the dashboard and the API
\* write it too): the counters as the checkout writes them, and texts that
\* are no number
UsedTexts == {<<"0">>, <<"x">>}

TotalTexts == {<<"4">>, <<"x">>}

SubscriptionWith(used, total) ==
    [NewSubscription(CheckoutRegularAmount) EXCEPT
        !.meta.promotional_weeks_used = used,
        !.meta.promotional_weeks_total = total]

NoHistory ==
    [events |-> 0, redelivered |-> FALSE, switched |-> FALSE,
     switchedAgain |-> FALSE,
     deletedProcessed |-> FALSE, mutatedAfterDeleted |-> FALSE]

WebhookInit(amounts) ==
    /\ \E amount \in amounts : sub = NewSubscription(amount)
    /\ wh = [h \in Handlers |-> Idle]
    /\ last = NoAnswer
    /\ deliveries = 0
    /\ hist = NoHistory

AnyTextInit ==
    /\ \E used \in UsedTexts, total \in TotalTexts :
          sub = SubscriptionWith(used, total)
    /\ wh = [h \in Handlers |-> Idle]
    /\ last = NoAnswer
    /\ deliveries = 0
    /\ hist = NoHistory

(***************************************************************************)
(* The handler from its entry to its response, for a request that makes no *)
(* platform call: a wrong method, a failed verification, an event that is  *)
(* only logged, a paid invoice that names no subscription.                 *)
(***************************************************************************)
\* (a variant that retrieves the subscription of a failed invoice as well)
EarlyStatusRetrievesFailed(req, secretSet) ==
    IF req.method # "POST" THEN 405
    ELSE IF ~ConstructEventOk(req.sig, secretSet) THEN 400
    ELSE IF req.etype \in InvoiceEvents /\ req.hasSub THEN 0
    ELSE 200

\* the status answered before any await; 0 when the handler goes on to
\* subscriptions.retrieve
EarlyStatus(req, secretSet) ==
    IF req.method # "POST" THEN 405
    ELSE IF ~ConstructEventOk(req.sig, secretSet) THEN 400
    ELSE IF req.etype = "invoice.payment_succeeded" /\ req.hasSub THEN 0
    ELSE 200

\* invocations are stateless and interchangeable: a request takes the first
\* free slot
FirstFree(h) == \A g \in Handlers : g < h => wh[g].pc # "idle"

\* one request after the other: none arrives while another is in flight
Alone == \A g \in Handlers : wh[g].pc = "idle"

\* the platform signs customer.subscription.deleted only for a subscription
\* it has cancelled
Deliverable(req) ==
    (req.sig = "valid" /\ req.etype = "customer.subscription.deleted")
        => sub.status = "canceled"

Receive(h, req) ==
    /\ wh[h].pc = "idle"
    /\ FirstFree(h)
    /\ Deliverable(req)
    /\ EarlyStatus(req, env.STRIPE_WEBHOOK_SECRET) # 0
    /\ last' = Answer(req, {}, EarlyStatus(req, env.STRIPE_WEBHOOK_SECRET))
    /\ hist' = IF /\ EarlyStatus(req, env.STRIPE_WEBHOOK_SECRET) = 200
                  /\ req.etype = "customer.subscription.deleted"
               THEN [hist EXCEPT !.deletedProcessed = TRUE]
               ELSE hist
    /\ UNCHANGED <<sub, wh, deliveries, env, coVars>>

(***************************************************************************)
(* The handler from its entry to the await of subscriptions.retrieve, for  *)
(* a request that gets that far (a verified invoice.payment_succeeded      *)
(* event whose invoice names the subscription).  again: the platform       *)
(* delivers once more an event that was already handled to the end;        *)
(* retrieveOk is the outcome of the call.                                  *)
(***************************************************************************)
Retrieve(h, req, again, retrieveOk) ==
    /\ wh[h].pc = "idle"
    /\ FirstFree(h)
    /\ Deliverable(req)
    /\ EarlyStatus(req, env.STRIPE_WEBHOOK_SECRET) = 0
    /\ deliveries < MaxDeliveries
    /\ again => hist.events > 0
    /\ deliveries' = deliveries + 1
    /\ IF retrieveOk
       THEN /\ wh' = [wh EXCEPT ![h] =
                  [pc |-> "retrieved", req |-> req, again |-> again,
                   snap |-> sub.meta]]
            /\ UNCHANGED last
       ELSE /\ last' = Thrown(req, {"retrieve"}, "retrieve")
            /\ UNCHANGED wh
    /\ UNCHANGED <<sub, hist, env, coVars>>

(***************************************************************************)
(* The handler after subscriptions.retrieve returned: it decides from the  *)
(* metadata it read, sends at most one subscriptions.update, and responds. *)
(* updateOk is the outcome of that call.                                   *)
(***************************************************************************)
Continue(h, updateOk) ==
    /\ wh[h].pc = "retrieved"
    /\ wh' = [wh EXCEPT ![h] = Idle]
    /\ UNCHANGED <<deliveries, env, coVars>>
    /\ LET r == wh[h]
           upd == UpdateFor(r.snap)
       IN  IF ~IsPromotional(r.snap)
           THEN /\ last' = Answer(r.req, {"retrieve"}, ReceivedStatus)
                /\ hist' = Applied(hist, r.again)
                /\ UNCHANGED sub
           ELSE IF updateOk
           THEN /\ sub' = ApplyUpdate(sub, upd)
                /\ last' = Answer(r.req, {"retrieve", "update"},
                                  ReceivedStatus)
                /\ hist' = [Applied(hist, r.again) EXCEPT
                      !.switched = @ \/ upd.hasPrice,
                      !.switchedAgain = @ \/ (hist.switched /\ upd.hasPrice),
                      !.mutatedAfterDeleted = @ \/ hist.deletedProcessed]
           ELSE /\ last' = Thrown(r.req, {"retrieve", "update"}, "update")
                /\ UNCHANGED <<sub, hist>>

\* the platform cancels the subscription (the customer or the merchant asked)
Cancel ==
    /\ sub.status = "active"
    /\ sub' = [sub EXCEPT !.status = "canceled"]
    /\ UNCHANGED <<wh, last, deliveries, hist, env, coVars>>

ReceiveAlone(h, req) == Alone /\ Receive(h, req)

RetrieveAlone(h, req, again, retrieveOk) ==
    Alone /\ Retrieve(h, req, again, retrieveOk)

(***************************************************************************)
(* create-subscription.js: the request and the checks made before the      *)
(* first platform call.  A body field is [def, s]: def is FALSE when the   *)
(* parsed object has no such field (it reads as undefined).                *)
(***************************************************************************)
Undefined == [def |-> FALSE, s |-> ""]

Str(s) == [def |-> TRUE, s |-> s]

\* !field
Falsy(f) == ~f.def \/ f.s = ""

EmailFields == {Undefined, Str(""), Str("a@x.com"), Str("b@x.com")}

NameFields == {Undefined, Str(""), Str("A")}

PaymentMethodFields == {Undefined, Str(""), Str("pm_1")}

\* event.body: absent, text that is no JSON, the JSON text null, or the JSON
\* text of an object
Body(kind, email, name, pm) ==
    [kind |-> kind, customer_email |-> email, customer_name |-> name,
     payment_method_id |-> pm]

Bodies ==
    {Body(k, Undefined, Undefined, Undefined) :
        k \in {"absent", "malformed", "null"}}
    \cup {Body("object", e, n, m) :
            e \in EmailFields, n \in NameFields, m \in PaymentMethodFields}

CheckoutRequests ==
    {[method |-> m, body |-> Body("absent", Undefined, Undefined, Undefined)] :
        m \in {"OPTIONS", "GET"}}
    \cup {[method |-> "POST", body |-> b] : b \in Bodies}

\* the same requests, and the valid ones with another payment method
ReturningRequests ==
    CheckoutRequests
    \cup {[method |-> "POST",
            body |-> Body("object", e, Str("A"), Str("pm_2"))] :
              e \in {Str("a@x.com"), Str("b@x.com")}}

\* (a variant that forgets to check the payment method)
RequiredFieldMissingNoPm(body) ==
    Falsy(body.customer_email) \/ Falsy(body.customer_name)

\* !customer_email || !customer_name || !payment_method_id
RequiredFieldMissing(body) ==
    \/ Falsy(body.customer_email)
    \/ Falsy(body.customer_name)
    \/ Falsy(body.payment_method_id)

\* (a variant that does not look at the secret key)
CheckoutEarlyStatusNoKeyCheck(req, keySet) ==
    IF req.method = "OPTIONS" THEN 200
    ELSE IF req.method # "POST" THEN 405
    ELSE IF req.body.kind = "absent" THEN 400
    ELSE IF req.body.kind \in {"malformed", "null"} THEN 500
    ELSE IF RequiredFieldMissing(req.body) THEN 400
    ELSE 0

\* the status answered before any await; 0 when the handler goes on to
\* customers.list.  JSON.parse throws on text that is no JSON and the
\* destructuring throws on null: both land in the outer catch.
CheckoutEarlyStatus(req, keySet) ==
    IF req.method = "OPTIONS" THEN 200
    ELSE IF req.method # "POST" THEN 405
    ELSE IF ~keySet THEN 500
    ELSE IF req.body.kind = "absent" THEN 400
    ELSE IF req.body.kind \in {"malformed", "null"} THEN 500
    ELSE IF RequiredFieldMissing(req.body) THEN 400
    ELSE 0

(***************************************************************************)
(* The platform's customer records.                                        *)
(***************************************************************************)
\* the customers with that email
WithEmail(cs, email) == {i \in 1..Len(cs) : cs[i].email = email}

Newest(ids) == CHOOSE i \in ids : \A j \in ids : j <= i

\* (a variant whose lookup never finds anything)
FindCustomerNever(cs, email) == 0

\* customers.list({email, limit: 1}).data[0]: the most recent customer with
\* that email; 0 when data is empty
FindCustomer(cs, email) ==
    IF WithEmail(cs, email) = {} THEN 0 ELSE Newest(WithEmail(cs, email))

\* customers.create({email, name, payment_method, invoice_settings})
NewCustomer(body) ==
    [email |-> body.customer_email.s,
     name |-> body.customer_name.s,
     methods |-> {body.payment_method_id.s},
     default_payment_method |-> body.payment_method_id.s]

\* products.list({limit: 10}).data.find(p => p.name === 'Weekly Meal Plan'):
\* the list holds the 10 most recent products, newest first
ListLimit == 10             \* create-subscription.js:104

FindProduct(ps) ==
    LET listed == {i \in 1..Len(ps) : i > Len(ps) - ListLimit}
        named == {i \in listed : ps[i] = "Weekly Meal Plan"}
    IN  IF named = {} THEN 0 ELSE Newest(named)

CheckoutUnitAmount == 3000  \* create-subscription.js:120

\* the metadata of subscriptions.create
CheckoutMetadata(body) ==
    [customer_email |-> body.customer_email.s,
     customer_name |-> body.customer_name.s,
     plan_type |-> "weekly-meal-plan"]

(***************************************************************************)
(* State of one checkout invocation, and the record of an answered one.    *)
(***************************************************************************)
NoCheckoutRequest ==
    [method |-> "POST", body |-> Body("absent", Undefined, Undefined, Undefined)]

\* lastCall: the platform call the invocation made last
\* coupon: couponId ("" is null); discounts: the coupons named in the
\* discounts of the subscriptions.create call
CoIdle ==
    [pc |-> "idle", req |-> NoCheckoutRequest, calls |-> {}, lastCall |-> "",
     customer |-> 0, product |-> 0, price |-> 0, coupon |-> "",
     discounts |-> {}]

\* the response to the request in slot r: status, the error text of the
\* body, the subscription id of the body (0: none).  created: the
\* subscription the request created on the platform (0: none).  threw: the
\* platform call whose rejection a catch turned into this response;
\* conflict: the rejection said that what the call was to add is there
\* already.
CoAnswer(r, code, error, subscription) ==
    [req |-> r.req, calls |-> r.calls, status |-> code, error |-> error,
     subscription |-> subscription, customer |-> r.customer,
     threw |-> "", conflict |-> FALSE, coupon |-> r.coupon,
     discounts |-> r.discounts, created |-> subscription]

NoCoAnswer == CoAnswer(CoIdle, 0, "", 0)

Called(r, call) == [r EXCEPT !.calls = @ \cup {call}, !.lastCall = call]

CheckoutInit ==
    /\ customers = <<>>
    /\ products = <<>>
    /\ prices = <<>>
    /\ subscriptions = <<>>
    /\ coupons = {}
    /\ co = [c \in Checkouts |-> CoIdle]
    /\ coLast = NoCoAnswer
    /\ checkouts = 0

(***************************************************************************)
(* The handler from its entry to its response, for a request answered      *)
(* before any platform call.                                               *)
(***************************************************************************)
\* invocations are stateless and interchangeable: a request takes the first
\* free slot
CoFirstFree(c) == \A d \in Checkouts : d < c => co[d].pc # "idle"

\* one request after the other: none arrives while another is in flight
CoAlone == \A d \in Checkouts : co[d].pc = "idle"

\* the error text answered with CheckoutEarlyStatus
EarlyError(req, keySet) ==
    IF req.method = "OPTIONS" THEN ""
    ELSE IF req.method # "POST" THEN "Only POST requests allowed"
    ELSE IF ~keySet THEN "Payment system not configured properly"
    ELSE IF req.body.kind = "absent" THEN "No subscription data received"
    ELSE IF req.body.kind \in {"malformed", "null"}
    THEN "Something went wrong with the subscription"
    ELSE "Missing required fields"

CoReceive(c, req) ==
    /\ co[c].pc = "idle"
    /\ CoFirstFree(c)
    /\ CheckoutEarlyStatus(req, env.STRIPE_SECRET_KEY) # 0
    /\ checkouts < MaxCheckouts
    /\ checkouts' = checkouts + 1
    /\ coLast' = CoAnswer([CoIdle EXCEPT !.req = req],
                          CheckoutEarlyStatus(req, env.STRIPE_SECRET_KEY),
                          EarlyError(req, env.STRIPE_SECRET_KEY), 0)
    /\ UNCHANGED <<customers, products, prices, subscriptions, co, whVars, env,
                   coupons>>

\* a platform call of the invocation in slot c failed: the catch of stage
\* answers 400 with the stage's error text
CoFail(c, r, error) ==
    /\ coLast' = [CoAnswer(r, 400, error, 0) EXCEPT !.threw = r.lastCall]
    /\ co' = [co EXCEPT ![c] = CoIdle]

\* (a variant whose customer stage answers with the text of the other stage)
CustomerStageErrorGeneric == "Failed to create subscription"

CustomerStageError == "Failed to set up customer account"

SubscriptionStageError == "Failed to create subscription"

(***************************************************************************)
(* The handler from its entry to the await of customers.list.              *)
(***************************************************************************)
CoStart(c, req, ok) ==
    /\ co[c].pc = "idle"
    /\ CoFirstFree(c)
    /\ CheckoutEarlyStatus(req, env.STRIPE_SECRET_KEY) = 0
    /\ checkouts < MaxCheckouts
    /\ checkouts' = checkouts + 1
    /\ LET r == Called([CoIdle EXCEPT !.req = req], "customers.list")
       IN  IF ok
           THEN /\ co' = [co EXCEPT ![c] =
                      [r EXCEPT !.pc = "listed",
                                !.customer =
                                    FindCustomer(customers,
                                                 req.body.customer_email.s)]]
                /\ UNCHANGED coLast
           ELSE CoFail(c, r, CustomerStageError)
    /\ UNCHANGED <<customers, products, prices, subscriptions, whVars, env,
                   coupons>>

(***************************************************************************)
(* After customers.list: paymentMethods.attach for the customer found, or  *)
(* customers.create when none was found.  The platform is the arbiter of   *)
(* uniqueness: exists is the rejection of customers.create because a       *)
(* customer with that email was created since the lookup, or the rejection *)
(* of paymentMethods.attach because the method is attached to the customer *)
(* already.  The catch of the customer stage (lines 88-98) answers every   *)
(* rejection alike.                                                        *)
(***************************************************************************)
AlreadyThere(r) ==
    IF r.customer = 0
    THEN WithEmail(customers, r.req.body.customer_email.s) # {}
    ELSE r.req.body.payment_method_id.s \in customers[r.customer].methods

CoCustomer(c, ok, exists) ==
    /\ co[c].pc = "listed"
    /\ exists => (~ok /\ AlreadyThere(co[c]))
    /\ LET body == co[c].req.body
           found == co[c].customer
           r == Called(co[c], IF found # 0 THEN "paymentMethods.attach"
                              ELSE "customers.create")
       IN  IF ~ok
           THEN /\ coLast' = [CoAnswer(r, 400, CustomerStageError, 0) EXCEPT
                                 !.threw = r.lastCall, !.conflict = exists]
                /\ co' = [co EXCEPT ![c] = CoIdle]
                /\ UNCHANGED customers
           ELSE IF found # 0
           THEN /\ customers' = [customers EXCEPT ![found].methods =
                                    @ \cup {body.payment_method_id.s}]
                /\ co' = [co EXCEPT ![c] = [r EXCEPT !.pc = "attached"]]
                /\ UNCHANGED coLast
           ELSE /\ customers' = Append(customers, NewCustomer(body))
                /\ co' = [co EXCEPT ![c] =
                      [r EXCEPT !.pc = "customer",
                                !.customer = Len(customers) + 1]]
                /\ UNCHANGED coLast
    /\ UNCHANGED <<products, prices, subscriptions, checkouts, whVars, env,
                   coupons>>

\* (a variant that attaches the method and leaves the default as it was)
KeepDefault(cs, id, pm) == cs

\* the platform applies customers.update(id, {invoice_settings:
\* {default_payment_method: pm}})
SetDefault(cs, id, pm) == [cs EXCEPT ![id].default_payment_method = pm]

\* after paymentMethods.attach: customers.update sets the default method
CoSetDefault(c, ok) ==
    /\ co[c].pc = "attached"
    /\ LET r == Called(co[c], "customers.update")
       IN  IF ok
           THEN /\ customers' =
                      SetDefault(customers, r.customer,
                                 r.req.body.payment_method_id.s)
                /\ co' = [co EXCEPT ![c] = [r EXCEPT !.pc = "customer"]]
                /\ UNCHANGED coLast
           ELSE CoFail(c, r, CustomerStageError) /\ UNCHANGED customers
    /\ UNCHANGED <<products, prices, subscriptions, checkouts, whVars, env,
                   coupons>>

\* the customer is resolved: products.list
CoListProducts(c, ok) ==
    /\ co[c].pc = "customer"
    /\ LET r == Called(co[c], "products.list")
       IN  IF ok
           THEN /\ co' = [co EXCEPT ![c] =
                      [r EXCEPT !.pc = "products",
                                !.product = FindProduct(products)]]
                /\ UNCHANGED coLast
           ELSE CoFail(c, r, SubscriptionStageError)
    /\ UNCHANGED <<customers, products, prices, subscriptions, checkouts, whVars,
                   env, coupons>>

\* no product named 'Weekly Meal Plan' was listed: products.create
CoCreateProduct(c, ok) ==
    /\ co[c].pc = "products"
    /\ co[c].product = 0
    /\ LET r == Called(co[c], "products.create")
       IN  IF ok
           THEN /\ products' = Append(products, "Weekly Meal Plan")
                /\ co' = [co EXCEPT ![c] =
                      [r EXCEPT !.product = Len(products) + 1]]
                /\ UNCHANGED coLast
           ELSE CoFail(c, r, SubscriptionStageError) /\ UNCHANGED products
    /\ UNCHANGED <<customers, prices, subscriptions, checkouts, whVars, env,
                   coupons>>

\* the product is known: prices.create
CoCreatePrice(c, ok) ==
    /\ co[c].pc = "products"
    /\ co[c].product # 0
    /\ LET r == Called(co[c], "prices.create")
       IN  IF ok
           THEN /\ prices' = Append(prices,
                      [product |-> r.product,
                       unit_amount |-> CheckoutUnitAmount,
                       currency |-> "aud",
                       interval |-> "week"])
                /\ co' = [co EXCEPT ![c] =
                      [r EXCEPT !.pc = "price", !.price = Len(prices) + 1]]
                /\ UNCHANGED coLast
           ELSE CoFail(c, r, SubscriptionStageError) /\ UNCHANGED prices
    /\ UNCHANGED <<customers, products, subscriptions, checkouts, whVars, env,
                   coupons>>

\* the price is created: subscriptions.create, then the response.  The
\* response reads latest_invoice.payment_intent.client_secret inside the
\* same try: without a payment intent that read throws and the catch of the
\* subscription stage answers.
CoSubscribe(c, ok, hasIntent) ==
    /\ co[c].pc = "price"
    /\ LET r == Called(co[c], "subscriptions.create")
       IN  IF ok
           THEN /\ subscriptions' = Append(subscriptions,
                      [customer |-> r.customer, price |-> r.price,
                       status |-> "incomplete",
                       meta |-> CheckoutMetadata(r.req.body),
                       discounts |-> {}])
                /\ coLast' = IF hasIntent
                             THEN CoAnswer(r, 200, "", Len(subscriptions) + 1)
                             ELSE [CoAnswer(r, 400, SubscriptionStageError, 0)
                                     EXCEPT !.threw = "client_secret",
                                            !.created = Len(subscriptions) + 1]
                /\ co' = [co EXCEPT ![c] = CoIdle]
           ELSE CoFail(c, r, SubscriptionStageError) /\ UNCHANGED subscriptions
    /\ UNCHANGED <<customers, products, prices, checkouts, whVars, env,
                   coupons>>

(***************************************************************************)
(* The version of create-subscription.js with the promotional coupon       *)
(* (src/unnamed/part_000, lines 1-198).  Up to the end of the customer      *)
(* stage it is the handler above, line for line; then it resolves the      *)
(* coupon and creates the subscription with an inline price.               *)
(***************************************************************************)
CouponId == "FIRST_4_WEEKS_50_OFF"

\* coupons.retrieve(CouponId): succeeds only for a coupon the platform holds.
\* A rejection is caught by the inner catch, which goes on to
\* coupons.create.
CoRetrieveCoupon(c, ok) ==
    /\ co[c].pc = "customer"
    /\ ok => CouponId \in coupons
    /\ LET r == Called(co[c], "coupons.retrieve")
       IN  co' = [co EXCEPT ![c] =
                    IF ok THEN [r EXCEPT !.pc = "coupon", !.coupon = CouponId]
                    ELSE [r EXCEPT !.pc = "nocoupon"]]
    /\ UNCHANGED <<customers, products, prices, subscriptions, coupons, coLast,
                   checkouts, whVars, env>>

\* coupons.create({id: CouponId, ...}): the platform rejects an id it holds
\* already.  A rejection is caught by the outer catch (lines 122-125),
\* which leaves couponId null and continues.
CoCreateCoupon(c, ok) ==
    /\ co[c].pc = "nocoupon"
    /\ ok => CouponId \notin coupons
    /\ LET r == Called(co[c], "coupons.create")
       IN  co' = [co EXCEPT ![c] =
                    IF ok THEN [r EXCEPT !.pc = "coupon", !.coupon = CouponId]
                    ELSE [r EXCEPT !.pc = "coupon"]]
    /\ coupons' = IF ok THEN coupons \cup {CouponId} ELSE coupons
    /\ UNCHANGED <<customers, products, prices, subscriptions, coLast,
                   checkouts, whVars, env>>

\* (a variant that names the coupon whether or not it was resolved)
DiscountsAlways(couponId) == {CouponId}

\* if (couponId) subscriptionData.discounts = [{ coupon: couponId }]
Discounts(couponId) == IF couponId # "" THEN {couponId} ELSE {}

\* subscriptions.create with price_data and product_data inline: the
\* platform creates the product and the price with the subscription
CoSubscribeInline(c, ok, hasIntent) ==
    /\ co[c].pc = "coupon"
    /\ LET r == [Called(co[c], "subscriptions.create") EXCEPT
                   !.discounts = Discounts(co[c].coupon)]
       IN  IF ok
           THEN /\ products' = Append(products, "Weekly Meal Plan")
                /\ prices' = Append(prices,
                      [product |-> Len(products) + 1,
                       unit_amount |-> InlineUnitAmount,
                       currency |-> "aud",
                       interval |-> "week"])
                /\ subscriptions' = Append(subscriptions,
                      [customer |-> r.customer, price |-> Len(prices) + 1,
                       status |-> "incomplete",
                       meta |-> CheckoutMetadata(r.req.body),
                       discounts |-> r.discounts])
                /\ coLast' = IF hasIntent
                             THEN CoAnswer(r, 200, "", Len(subscriptions) + 1)
                             ELSE [CoAnswer(r, 400, SubscriptionStageError, 0)
                                     EXCEPT !.threw = "client_secret",
                                            !.created = Len(subscriptions) + 1]
                /\ co' = [co EXCEPT ![c] = CoIdle]
           ELSE /\ CoFail(c, r, SubscriptionStageError)
                /\ UNCHANGED <<products, prices, subscriptions>>
    /\ UNCHANGED <<customers, coupons, checkouts, whVars, env>>

(***************************************************************************)
(* The version of create-subscription.js that resolves the coupon through  *)
(* the helper createPromotionalCoupon (src/unnamed/part_002).  It guards    *)
(* JSON.parse, takes a customer it finds as it is, and evaluates the       *)
(* helper inside the argument of subscriptions.create.                     *)
(***************************************************************************)
\* the status answered before any await; 0 when the handler goes on to
\* customers.list.  Text that is no JSON is answered by the catch around
\* JSON.parse; the destructuring of null throws a TypeError, which has no
\* type, so the outer catch answers 500.
HelperEarlyStatus(req, keySet) ==
    IF req.method = "OPTIONS" THEN 200
    ELSE IF req.method # "POST" THEN 405
    ELSE IF ~keySet THEN 500
    ELSE IF req.body.kind = "absent" THEN 400
    ELSE IF req.body.kind = "malformed" THEN 400
    ELSE IF req.body.kind = "null" THEN 500
    ELSE IF RequiredFieldMissing(req.body) THEN 400
    ELSE 0

\* the error text answered with HelperEarlyStatus
HelperEarlyError(req, keySet) ==
    IF req.method = "OPTIONS" THEN ""
    ELSE IF req.method # "POST" THEN "Only POST requests allowed"
    ELSE IF ~keySet THEN "Payment system not configured properly"
    ELSE IF req.body.kind = "absent" THEN "No subscription data received"
    ELSE IF req.body.kind = "malformed" THEN "Invalid subscription data format"
    ELSE IF req.body.kind = "null"
    THEN "Something went wrong with the subscription"
    ELSE "Please provide email, name, and valid payment method"

HelperReceive(c, req) ==
    /\ co[c].pc = "idle"
    /\ CoFirstFree(c)
    /\ HelperEarlyStatus(req, env.STRIPE_SECRET_KEY) # 0
    /\ checkouts < MaxCheckouts
    /\ checkouts' = checkouts + 1
    /\ coLast' = CoAnswer([CoIdle EXCEPT !.req = req],
                          HelperEarlyStatus(req, env.STRIPE_SECRET_KEY),
                          HelperEarlyError(req, env.STRIPE_SECRET_KEY), 0)
    /\ UNCHANGED <<customers, products, prices, subscriptions, co, whVars, env,
                   coupons>>

\* from the entry to the await of customers.list.  A customer found is
\* taken as it is: the handler goes on to the subscription stage.
HelperStart(c, req, ok) ==
    /\ co[c].pc = "idle"
    /\ CoFirstFree(c)
    /\ HelperEarlyStatus(req, env.STRIPE_SECRET_KEY) = 0
    /\ checkouts < MaxCheckouts
    /\ checkouts' = checkouts + 1
    /\ LET r == Called([CoIdle EXCEPT !.req = req], "customers.list")
           found == FindCustomer(customers, req.body.customer_email.s)
       IN  IF ok
           THEN /\ co' = [co EXCEPT ![c] =
                      [r EXCEPT !.pc = IF found # 0 THEN "customer"
                                       ELSE "listed",
                                !.customer = found]]
                /\ UNCHANGED coLast
           ELSE CoFail(c, r, CustomerStageError)
    /\ UNCHANGED <<customers, products, prices, subscriptions, whVars, env,
                   coupons>>

\* no customer was found: customers.create
HelperCustomer(c, ok) ==
    /\ co[c].pc = "listed"
    /\ LET r == Called(co[c], "customers.create")
       IN  IF ok
           THEN /\ customers' = Append(customers, NewCustomer(r.req.body))
                /\ co' = [co EXCEPT ![c] =
                      [r EXCEPT !.pc = "customer",
                                !.customer = Len(customers) + 1]]
                /\ UNCHANGED coLast
           ELSE CoFail(c, r, CustomerStageError) /\ UNCHANGED customers
    /\ UNCHANGED <<products, prices, subscriptions, checkouts, whVars, env,
                   coupons>>

\* createPromotionalCoupon, to its first await: coupons.list({limit: 100})
\* and the search for CouponId in the list.  A rejection is caught by the
\* helper's catch, which returns null.
createPromotionalCoupon_list(c, ok) ==
    /\ co[c].pc = "customer"
    /\ LET r == Called(co[c], "coupons.list")
       IN  co' = [co EXCEPT ![c] =
                    IF ~ok THEN [r EXCEPT !.pc = "coupon", !.coupon = ""]
                    ELSE IF CouponId \in coupons
                    THEN [r EXCEPT !.pc = "coupon", !.coupon = CouponId]
                    ELSE [r EXCEPT !.pc = "nocoupon"]]
    /\ UNCHANGED <<customers, products, prices, subscriptions, coupons, coLast,
                   checkouts, whVars, env>>

\* createPromotionalCoupon, after the list did not hold the coupon:
\* coupons.create({id: CouponId, ...}), which the platform rejects for an
\* id it holds already.  A rejection is caught by the helper's catch, which
\* returns null.
createPromotionalCoupon_create(c, ok) ==
    /\ co[c].pc = "nocoupon"
    /\ ok => CouponId \notin coupons
    /\ LET r == Called(co[c], "coupons.create")
       IN  co' = [co EXCEPT ![c] =
                    IF ok THEN [r EXCEPT !.pc = "coupon", !.coupon = CouponId]
                    ELSE [r EXCEPT !.pc = "coupon", !.coupon = ""]]
    /\ coupons' = IF ok THEN coupons \cup {CouponId} ELSE coupons
    /\ UNCHANGED <<customers, products, prices, subscriptions, coLast,
                   checkouts, whVars, env>>

\* discounts: [{ coupon: await createPromotionalCoupon() }]: one entry,
\* whatever the helper returned
HelperDiscounts(couponId) == {couponId}

\* the metadata of subscriptions.create
HelperMetadata(body) ==
    [customer_email |-> body.customer_email.s,
     customer_name |-> body.customer_name.s,
     plan_type |-> "weekly-meal-plan",
     promotional_period |-> "first-4-weeks-50-percent-off"]

\* the helper has returned: subscriptions.create with price_data and
\* product_data inline, then the response.  Whether the platform accepts
\* an entry of discounts whose coupon is null is the platform's choice (ok);
\* a subscription it creates carries the coupons the entries name.
HelperSubscribe(c, ok, hasIntent) ==
    /\ co[c].pc = "coupon"
    /\ LET r == [Called(co[c], "subscriptions.create") EXCEPT
                   !.discounts = HelperDiscounts(co[c].coupon)]
       IN  IF ok
           THEN /\ products' = Append(products, "Weekly Meal Plan")
                /\ prices' = Append(prices,
                      [product |-> Len(products) + 1,
                       unit_amount |-> InlineUnitAmount,
                       currency |-> "aud",
                       interval |-> "week"])
                /\ subscriptions' = Append(subscriptions,
                      [customer |-> r.customer, price |-> Len(prices) + 1,
                       status |-> "incomplete",
                       meta |-> HelperMetadata(r.req.body),
                       discounts |-> r.discounts \ {""}])
                /\ coLast' = IF hasIntent
                             THEN CoAnswer(r, 200, "", Len(subscriptions) + 1)
                             ELSE [CoAnswer(r, 400, SubscriptionStageError, 0)
                                     EXCEPT !.threw = "client_secret",
                                            !.created = Len(subscriptions) + 1]
                /\ co' = [co EXCEPT ![c] = CoIdle]
           ELSE /\ CoFail(c, r, SubscriptionStageError)
                /\ UNCHANGED <<products, prices, subscriptions>>
    /\ UNCHANGED <<customers, coupons, checkouts, whVars, env>>

\* the merchant adds some other product to the catalog (the account's
\* catalog is not reserved to this handler)
OtherProduct ==
    /\ Cardinality({i \in 1..Len(products) : products[i] = "Other"})
          < MaxOtherProducts
    /\ products' = Append(products, "Other")
    /\ UNCHANGED <<customers, prices, subscriptions, co, coLast, checkouts,
                   whVars, env, coupons>>

CoReceiveAlone(c, req) == CoAlone /\ CoReceive(c, req)

CoStartAlone(c, req, ok) == CoAlone /\ CoStart(c, req, ok)

(***************************************************************************)
(* Specifications.                                                         *)
(***************************************************************************)
WebhookEnv ==
    \E secretSet \in BOOLEAN :
        env = [STRIPE_SECRET_KEY |-> TRUE, STRIPE_WEBHOOK_SECRET |-> secretSet]

CheckoutEnv ==
    \E keySet \in BOOLEAN :
        env = [STRIPE_SECRET_KEY |-> keySet, STRIPE_WEBHOOK_SECRET |-> TRUE]

Init == WebhookInit({CheckoutRegularAmount}) /\ WebhookEnv /\ CheckoutInit

\* the same, for every value of regular_price_amount the platform may hold
AnyAmountInit == WebhookInit(RegularAmounts) /\ WebhookEnv /\ CheckoutInit

CoInit == WebhookInit({CheckoutRegularAmount}) /\ CheckoutEnv /\ CheckoutInit

\* the webhook handler, for every text the counters may hold
TextInit == AnyTextInit /\ WebhookEnv /\ CheckoutInit

WebhookNext ==
    \/ \E h \in Handlers, req \in Requests : Receive(h, req)
    \/ \E h \in Handlers, req \in Requests, again \in BOOLEAN,
          retrieveOk \in BOOLEAN : Retrieve(h, req, again, retrieveOk)
    \/ \E h \in Handlers, updateOk \in BOOLEAN : Continue(h, updateOk)
    \/ Cancel

WebhookSeqNext ==
    \/ \E h \in Handlers, req \in Requests : ReceiveAlone(h, req)
    \/ \E h \in Handlers, req \in Requests, again \in BOOLEAN,
          retrieveOk \in BOOLEAN : RetrieveAlone(h, req, again, retrieveOk)
    \/ \E h \in Handlers, updateOk \in BOOLEAN : Continue(h, updateOk)
    \/ Cancel

CheckoutNext ==
    \/ \E c \in Checkouts, req \in CheckoutRequests : CoReceive(c, req)
    \/ \E c \in Checkouts, req \in CheckoutRequests, ok \in BOOLEAN :
          CoStart(c, req, ok)
    \/ \E c \in Checkouts, ok \in BOOLEAN, exists \in BOOLEAN :
          CoCustomer(c, ok, exists)
    \/ \E c \in Checkouts, ok \in BOOLEAN : CoSetDefault(c, ok)
    \/ \E c \in Checkouts, ok \in BOOLEAN : CoListProducts(c, ok)
    \/ \E c \in Checkouts, ok \in BOOLEAN : CoCreateProduct(c, ok)
    \/ \E c \in Checkouts, ok \in BOOLEAN : CoCreatePrice(c, ok)
    \/ \E c \in Checkouts, ok \in BOOLEAN, hasIntent \in BOOLEAN :
          CoSubscribe(c, ok, hasIntent)

CheckoutSeqNext ==
    \/ \E c \in Checkouts, req \in ReturningRequests : CoReceiveAlone(c, req)
    \/ \E c \in Checkouts, req \in ReturningRequests, ok \in BOOLEAN :
          CoStartAlone(c, req, ok)
    \/ \E c \in Checkouts, ok \in BOOLEAN, exists \in BOOLEAN :
          CoCustomer(c, ok, exists)
    \/ \E c \in Checkouts, ok \in BOOLEAN : CoSetDefault(c, ok)
    \/ \E c \in Checkouts, ok \in BOOLEAN : CoListProducts(c, ok)
    \/ \E c \in Checkouts, ok \in BOOLEAN : CoCreateProduct(c, ok)
    \/ \E c \in Checkouts, ok \in BOOLEAN : CoCreatePrice(c, ok)
    \/ \E c \in Checkouts, ok \in BOOLEAN, hasIntent \in BOOLEAN :
          CoSubscribe(c, ok, hasIntent)

\* checkout invocations one after another, in a catalog that grows
CatalogSeqNext ==
    \/ \E c \in Checkouts, req \in CheckoutRequests : CoReceiveAlone(c, req)
    \/ \E c \in Checkouts, req \in CheckoutRequests, ok \in BOOLEAN :
          CoStartAlone(c, req, ok)
    \/ \E c \in Checkouts, ok \in BOOLEAN, exists \in BOOLEAN :
          CoCustomer(c, ok, exists)
    \/ \E c \in Checkouts, ok \in BOOLEAN : CoSetDefault(c, ok)
    \/ \E c \in Checkouts, ok \in BOOLEAN : CoListProducts(c, ok)
    \/ \E c \in Checkouts, ok \in BOOLEAN : CoCreateProduct(c, ok)
    \/ \E c \in Checkouts, ok \in BOOLEAN : CoCreatePrice(c, ok)
    \/ \E c \in Checkouts, ok \in BOOLEAN, hasIntent \in BOOLEAN :
          CoSubscribe(c, ok, hasIntent)
    \/ OtherProduct

\* the version with the coupon, invocations interleaving freely
CouponNext ==
    \/ \E c \in Checkouts, req \in CheckoutRequests : CoReceive(c, req)
    \/ \E c \in Checkouts, req \in CheckoutRequests, ok \in BOOLEAN :
          CoStart(c, req, ok)
    \/ \E c \in Checkouts, ok \in BOOLEAN, exists \in BOOLEAN :
          CoCustomer(c, ok, exists)
    \/ \E c \in Checkouts, ok \in BOOLEAN : CoSetDefault(c, ok)
    \/ \E c \in Checkouts, ok \in BOOLEAN : CoRetrieveCoupon(c, ok)
    \/ \E c \in Checkouts, ok \in BOOLEAN : CoCreateCoupon(c, ok)
    \/ \E c \in Checkouts, ok \in BOOLEAN, hasIntent \in BOOLEAN :
          CoSubscribeInline(c, ok, hasIntent)

\* the version with the helper, invocations interleaving freely
HelperNext ==
    \/ \E c \in Checkouts, req \in CheckoutRequests : HelperReceive(c, req)
    \/ \E c \in Checkouts, req \in CheckoutRequests, ok \in BOOLEAN :
          HelperStart(c, req, ok)
    \/ \E c \in Checkouts, ok \in BOOLEAN : HelperCustomer(c, ok)
    \/ \E c \in Checkouts, ok \in BOOLEAN : createPromotionalCoupon_list(c, ok)
    \/ \E c \in Checkouts, ok \in BOOLEAN :
          createPromotionalCoupon_create(c, ok)
    \/ \E c \in Checkouts, ok \in BOOLEAN, hasIntent \in BOOLEAN :
          HelperSubscribe(c, ok, hasIntent)

\* webhook invocations interleaving freely
WebhookSpec == Init /\ [][WebhookNext]_vars

\* webhook invocations one after another
WebhookSeqSpec == AnyAmountInit /\ [][WebhookSeqNext]_vars

\* checkout invocations interleaving freely
CheckoutSpec == CoInit /\ [][CheckoutNext]_vars

\* checkout invocations one after another
CheckoutSeqSpec == CoInit /\ [][CheckoutSeqNext]_vars

CatalogSeqSpec == CoInit /\ [][CatalogSeqNext]_vars

\* webhook invocations one after another, counters holding any text
WebhookTextSpec == TextInit /\ [][WebhookSeqNext]_vars

CouponSpec == CoInit /\ [][CouponNext]_vars

HelperSpec == CoInit /\ [][HelperNext]_vars

(***************************************************************************)
(* Properties of the webhook handler.                                      *)
(***************************************************************************)
UsedKey == "promotional_weeks_used"

TotalKey == "promotional_weeks_total"

\* C1: starting from promotional_weeks_used = 0 and promotional_weeks_total
\* = 4, with distinct invoice.payment_succeeded events handled one after
\* another: after the k-th event, k in 1..3, the stored counter is k and the
\* price is still the promotional one; from the 4th event on both counters
\* are absent and the price is the regular price (the amount the checkout
\* stores as regular_price_amount).
C1_PromotionalProgression ==
    ~hist.redelivered =>
        /\ hist.events \in 1..3 =>
              /\ ParseField(sub.meta, UsedKey) = Num(hist.events)
              /\ ParseField(sub.meta, TotalKey) = Num(4)
              /\ sub.unit_amount = PromoUnitAmount
        /\ hist.events >= 4 =>
              /\ ~Has(sub.meta, UsedKey)
              /\ ~Has(sub.meta, TotalKey)
              /\ sub.unit_amount = RegularUnitAmount
              /\ sub.meta.regular_price_amount = CheckoutRegularAmount =>
                    Num(sub.unit_amount) =
                        ParseInt(sub.meta.regular_price_amount)

C1_Witness ==
    /\ ~hist.redelivered
    /\ hist.events = 4
    /\ sub.unit_amount = RegularUnitAmount
    /\ ~Has(sub.meta, UsedKey)

\* C2: delivering the same invoice.payment_succeeded event a second time
\* does not advance the counter: the stored counter never exceeds the number
\* of distinct events handled, and the switch to regular pricing does not
\* happen before 4 distinct events were handled.
C2_RedeliveryIsIdempotent ==
    /\ IsPromotional(sub.meta) =>
          ParseField(sub.meta, UsedKey).val <= hist.events
    /\ hist.switched => hist.events >= 4

\* C3: a request whose signature is missing or fails verification is
\* answered with 400 and makes no subscriptions.retrieve or
\* subscriptions.update call, whatever event it carries; every request that
\* made such a call had a valid signature.
C3_UnverifiedRequestRejected ==
    /\ (last.status # 0 /\ last.req.sig # "valid") =>
          /\ last.calls = {}
          /\ last.req.method = "POST" => last.status = 400
    /\ \A h \in Handlers : wh[h].pc = "retrieved" => wh[h].req.sig = "valid"

C3_Witness ==
    /\ last.status = 400
    /\ last.req.sig = "missing"
    /\ last.req.etype = "invoice.payment_succeeded"
    /\ last.req.hasSub
    /\ last.calls = {}

\* C4: when the handler has switched the subscription to the regular tier,
\* the unit amount of the new price equals the value stored in the
\* subscription's regular_price_amount metadata.
C4_RegularAmountFromMetadata ==
    hist.switched =>
        Num(sub.unit_amount) = ParseField(sub.meta, "regular_price_amount")

\* C5: once the subscription has been switched to the regular tier, the
\* promotional counters never reappear in its metadata and its price is
\* never changed again, also when handler runs interleave.
C5_RegularIsPermanent ==
    hist.switched =>
        /\ ~Has(sub.meta, UsedKey)
        /\ ~Has(sub.meta, TotalKey)
        /\ ~hist.switchedAgain

\* C6: whenever the promotional counters are present they satisfy
\* 0 <= promotional_weeks_used <= promotional_weeks_total, and the counter
\* is never at or above the total together with a price that is not the
\* regular one.
C6_CounterInvariant ==
    (Has(sub.meta, UsedKey) \/ Has(sub.meta, TotalKey)) =>
        LET used == ParseField(sub.meta, UsedKey)
            total == ParseField(sub.meta, TotalKey)
        IN  /\ ~used.nan /\ ~total.nan
            /\ 0 <= used.val /\ used.val <= total.val
            /\ used.val >= total.val => sub.unit_amount = RegularUnitAmount

C6_Witness ==
    /\ hist.switched
    /\ ParseField(sub.meta, UsedKey) = Num(3)
    /\ ParseField(sub.meta, TotalKey) = Num(4)

\* C7: after a customer.subscription.deleted event has been processed, no
\* later event causes a mutation of the subscription's metadata or price.
C7_CancelledIsTerminal == ~hist.mutatedAfterDeleted

(***************************************************************************)
(* Properties of the checkout handler.                                     *)
(***************************************************************************)
Emails == {"a@x.com", "b@x.com"}

FieldAbsentOrEmpty(f) == f = Undefined \/ f = Str("")

SomeFieldAbsentOrEmpty(body) ==
    \/ FieldAbsentOrEmpty(body.customer_email)
    \/ FieldAbsentOrEmpty(body.customer_name)
    \/ FieldAbsentOrEmpty(body.payment_method_id)

\* C8: a checkout request (a POST whose body is a JSON object) in which
\* customer_email, customer_name or payment_method_id is missing or empty
\* makes no platform call, and is answered with 400 once the secret key is
\* configured; no invocation that is past its first platform call has such
\* a request.
C8_MissingFieldRejected ==
    /\ ( /\ coLast.status # 0
         /\ coLast.req.method = "POST"
         /\ coLast.req.body.kind = "object"
         /\ SomeFieldAbsentOrEmpty(coLast.req.body) ) =>
          /\ coLast.calls = {}
          /\ env.STRIPE_SECRET_KEY => coLast.status = 400
    /\ \A c \in Checkouts :
          co[c].pc # "idle" => ~SomeFieldAbsentOrEmpty(co[c].req.body)

C8_Witness ==
    /\ coLast.status = 400
    /\ coLast.calls = {}
    /\ coLast.req.body =
          Body("object", Str("a@x.com"), Str("A"), Str(""))

\* C9: with checkout requests executed one after another, the platform
\* holds at most one customer record per email: the first request creates
\* it, every later one finds and reuses it.
C9_OneCustomerPerEmail ==
    \A e \in Emails : Cardinality(WithEmail(customers, e)) <= 1

C9_Witness ==
    /\ coLast.status = 200
    /\ "paymentMethods.attach" \in coLast.calls
    /\ "customers.create" \notin coLast.calls
    /\ Len(subscriptions) = 2
    /\ Cardinality(WithEmail(customers, coLast.req.body.customer_email.s)) = 1

\* C10: when two checkout requests for the same email run concurrently and
\* both find no customer, the platform still holds at most one customer
\* record for that email after both have finished.
C10_OneCustomerAfterRace ==
    CoAlone =>
        \A i, j \in 1..Len(customers) :
            customers[i].email = customers[j].email => i = j

\* C11: when customers.create is rejected because a customer with that
\* email exists already (the request lost a race with a concurrent
\* checkout), the request is not answered with the customer-stage error: it
\* goes on to subscriptions.create.
C11_LostRaceTolerated ==
    (coLast.conflict /\ coLast.threw = "customers.create") =>
        /\ coLast.error # CustomerStageError
        /\ "subscriptions.create" \in coLast.calls

\* C12: with checkout requests executed one after another, the platform
\* holds at most one price per (product, amount, currency, interval): the
\* second checkout reuses the price of the first and creates none.
C12_PriceReused ==
    \A i, j \in 1..Len(prices) :
        ( /\ prices[i].product = prices[j].product
          /\ prices[i].unit_amount = prices[j].unit_amount
          /\ prices[i].currency = prices[j].currency
          /\ prices[i].interval = prices[j].interval ) => i = j

PlanProducts == {i \in 1..Len(products) : products[i] = "Weekly Meal Plan"}

\* C13: with checkout requests executed one after another, the platform
\* holds at most one product for the weekly meal plan, whatever other
\* products the catalog contains.
C13_OnePlanProduct == Cardinality(PlanProducts) <= 1

\* C14: every subscription a checkout has created carries the metadata
\* promotional_weeks_used = 0, promotional_weeks_total = 4 and a
\* regular_price_amount (the metadata from which the webhook handler counts
\* four paid invoices and then switches to the regular price).
C14_PromotionalMetadata ==
    \A i \in 1..Len(subscriptions) :
        /\ Has(subscriptions[i].meta, UsedKey)
        /\ Has(subscriptions[i].meta, TotalKey)
        /\ Has(subscriptions[i].meta, "regular_price_amount")
        /\ ParseField(subscriptions[i].meta, UsedKey) = Num(0)
        /\ ParseField(subscriptions[i].meta, TotalKey) = Num(4)

\* C15: the first checkout on an empty platform, when it is valid and
\* answered with 200, has created exactly one customer, one product, one
\* price of 2000 minor units per week and one subscription in status
\* incomplete, and its response names that subscription.
C15_FirstCheckout ==
    (coLast.status = 200 /\ coLast.req.method = "POST" /\ checkouts = 1) =>
        /\ Len(customers) = 1
        /\ Len(products) = 1
        /\ Len(prices) = 1
        /\ prices[1].unit_amount = RegularUnitAmount
        /\ prices[1].interval = "week"
        /\ Len(subscriptions) = 1
        /\ subscriptions[1].status = "incomplete"
        /\ coLast.subscription = 1

\* (C15 with the amount the handler uses: everything but the amount holds)
FirstCheckoutButAmount ==
    (coLast.status = 200 /\ coLast.req.method = "POST" /\ checkouts = 1) =>
        /\ Len(customers) = 1
        /\ Len(products) = 1
        /\ Len(prices) = 1
        /\ prices[1].unit_amount = CheckoutUnitAmount
        /\ prices[1].interval = "week"
        /\ Len(subscriptions) = 1
        /\ subscriptions[1].status = "incomplete"
        /\ coLast.subscription = 1

\* C16 (the version with the coupon): a request whose coupon could be
\* neither retrieved nor created still issues subscriptions.create, names
\* no coupon in it, is not answered with an error for the coupon, and the
\* subscription it creates has no discount.
C16_CouponFailureTolerated ==
    ( /\ coLast.status # 0
      /\ "coupons.create" \in coLast.calls
      /\ coLast.coupon = "" ) =>
        /\ "subscriptions.create" \in coLast.calls
        /\ coLast.discounts = {}
        /\ coLast.threw \notin {"coupons.retrieve", "coupons.create"}
        /\ coLast.status = 200 =>
              subscriptions[coLast.subscription].discounts = {}

C16_Witness ==
    /\ coLast.status = 200
    /\ {"coupons.retrieve", "coupons.create"} \subseteq coLast.calls
    /\ coLast.coupon = ""
    /\ coLast.subscription = Len(subscriptions)
    /\ subscriptions[coLast.subscription].discounts = {}

(***************************************************************************)
(* Properties of the webhook handler: errors.                              *)
(***************************************************************************)
\* C17: a verified event during whose handling subscriptions.retrieve or
\* subscriptions.update was rejected is answered with 500, never with 200.
C17_FailureIsNotAcknowledged ==
    /\ last.threw # "" => last.status = 500
    /\ (last.status = 200 /\ last.calls # {}) => last.threw = ""

C17_Witness ==
    /\ last.threw = "update"
    /\ last.calls = {"retrieve", "update"}
    /\ last.status = 500
    /\ last.req.sig = "valid"

\* C20: a webhook request (a POST) received while STRIPE_WEBHOOK_SECRET is
\* not configured is answered with 500 and reads or mutates no subscription.
C20_MissingSecretIs500 ==
    ( /\ last.status # 0
      /\ last.req.method = "POST"
      /\ ~env.STRIPE_WEBHOOK_SECRET ) =>
        /\ last.status = 500
        /\ last.calls = {}

(***************************************************************************)
(* Properties of the checkout handler: errors.                             *)
(***************************************************************************)
CustomerCalls ==
    {"customers.list", "paymentMethods.attach", "customers.update",
     "customers.create"}

LaterCalls ==
    {"products.list", "products.create", "prices.create", "coupons.retrieve",
     "coupons.create", "subscriptions.create"}

\* C18: a request one of whose customer-stage calls was rejected is
\* answered with 400 and the customer-stage text and has made no product,
\* price, coupon or subscription call; a request whose subscriptions.create
\* was rejected is answered with 400 and the subscription-stage text.
C18_StageErrors ==
    /\ coLast.threw \in CustomerCalls =>
          /\ coLast.status = 400
          /\ coLast.error = "Failed to set up customer account"
          /\ coLast.calls \cap LaterCalls = {}
    /\ coLast.threw = "subscriptions.create" =>
          /\ coLast.status = 400
          /\ coLast.error = "Failed to create subscription"

C18_Witness ==
    /\ coLast.threw = "customers.update"
    /\ coLast.status = 400
    /\ coLast.error = "Failed to set up customer account"
    /\ Len(subscriptions) = 1

\* C19: a checkout request (a POST) received while STRIPE_SECRET_KEY is not
\* configured is answered with 500 and makes no platform call.
C19_MissingKeyIs500 ==
    /\ ( /\ coLast.status # 0
         /\ coLast.req.method = "POST"
         /\ ~env.STRIPE_SECRET_KEY ) =>
          /\ coLast.status = 500
          /\ coLast.calls = {}
    /\ ~env.STRIPE_SECRET_KEY => \A c \in Checkouts : co[c].pc = "idle"

C19_Witness ==
    /\ ~env.STRIPE_SECRET_KEY
    /\ coLast.status = 500
    /\ coLast.calls = {}
    /\ coLast.req.body = Body("object", Str("a@x.com"), Str("A"), Str("pm_1"))

\* C21: a checkout request (a POST, the secret key configured) whose body
\* is present but is not well-formed JSON is answered with 400 and makes no
\* platform call.
C21_MalformedBodyIs400 ==
    ( /\ coLast.status # 0
      /\ coLast.req.method = "POST"
      /\ coLast.req.body.kind = "malformed"
      /\ env.STRIPE_SECRET_KEY ) =>
        /\ coLast.status = 400
        /\ coLast.calls = {}

\* C22: a checkout by an existing customer whose paymentMethods.attach is
\* rejected because the method is attached to that customer already is not
\* answered with the customer-stage error: it goes on to
\* subscriptions.create.
C22_AlreadyAttachedTolerated ==
    (coLast.conflict /\ coLast.threw = "paymentMethods.attach") =>
        /\ coLast.error # CustomerStageError
        /\ "subscriptions.create" \in coLast.calls

\* C23: a request whose subscriptions.create succeeded is answered with 200
\* and the id of the subscription it created; a request answered otherwise
\* has created no subscription.
C23_NoUnreportedSubscription ==
    (coLast.status # 0 /\ coLast.created # 0) =>
        /\ coLast.status = 200
        /\ coLast.subscription = coLast.created

(***************************************************************************)
(* Properties of the webhook handler: what an event leaves alone.          *)
(***************************************************************************)
IgnoredEvents == EventTypes \ {"invoice.payment_succeeded"}

\* C24: a verified customer.subscription.deleted or invoice.payment_failed
\* event, or one of a type the handler does not know, is answered with 200
\* and makes no subscriptions.retrieve or subscriptions.update call; the
\* step that answers it leaves the subscription as it is, and no invocation
\* that has retrieved the subscription is handling such an event.
C24_IgnoredEventsTouchNothing ==
    /\ []( /\ ( /\ last.status # 0
                /\ last.req.method = "POST"
                /\ last.req.sig = "valid"
                /\ env.STRIPE_WEBHOOK_SECRET
                /\ last.req.etype \in IgnoredEvents ) =>
                 (last.status = 200 /\ last.calls = {})
           /\ \A h \in Handlers :
                 wh[h].pc = "retrieved" =>
                     wh[h].req.etype \notin IgnoredEvents )
    /\ [][ (last' # last /\ last'.req.etype \in IgnoredEvents) =>
              sub' = sub ]_vars

C24_Witness ==
    /\ last.status = 200
    /\ last.calls = {}
    /\ last.req.etype = "invoice.payment_failed"
    /\ last.req.hasSub
    /\ hist.events > 0

\* the step in which the invocation in slot h has its subscriptions.update
\* applied and answers
Updates(h) ==
    /\ wh[h].pc = "retrieved"
    /\ wh'[h].pc = "idle"
    /\ IsPromotional(wh[h].snap)
    /\ last'.threw = ""

\* C25: when a successful-payment event is processed for a subscription
\* that is promotional and the incremented counter is below the total, the
\* update changes nothing but the value of promotional_weeks_used: price,
\* status, the set of metadata keys and the value of every other key stay.
C25_CounterUpdateFrame ==
    [][ \A h \in Handlers :
          ( /\ Updates(h)
            /\ ~SwitchesToRegular(wh[h].snap)
            /\ IsPromotional(sub.meta) ) =>
              /\ sub'.unit_amount = sub.unit_amount
              /\ sub'.status = sub.status
              /\ DOMAIN sub'.meta = DOMAIN sub.meta
              /\ \A k \in (DOMAIN sub.meta) \ {UsedKey} :
                    sub'.meta[k] = sub.meta[k]
              /\ sub'.meta[UsedKey] = NumToString(WeeksUsed(wh[h].snap)) ]_vars

C25_Witness ==
    /\ hist.events = 2
    /\ ~hist.switched
    /\ ParseField(sub.meta, UsedKey) = Num(2)
    /\ ParseField(sub.meta, TotalKey) = Num(4)
    /\ sub.unit_amount = PromoUnitAmount
    /\ last.calls = {"retrieve", "update"}
    /\ last.status = 200

KeptKeys == {"plan_type", "customer_email", "customer_name"}

\* C26: when the handler switches the subscription to the regular tier,
\* plan_type, customer_email and customer_name keep their values, and no
\* metadata key but the two promotional counters is removed.
C26_SwitchKeepsIdentity ==
    [][ \A h \in Handlers :
          (Updates(h) /\ SwitchesToRegular(wh[h].snap)) =>
              /\ \A k \in KeptKeys :
                    /\ Has(sub.meta, k)
                    /\ Has(sub'.meta, k)
                    /\ sub'.meta[k] = sub.meta[k]
              /\ (DOMAIN sub.meta) \ (DOMAIN sub'.meta)
                    \subseteq {UsedKey, TotalKey}
              /\ ~Has(sub'.meta, UsedKey)
              /\ ~Has(sub'.meta, TotalKey) ]_vars

C26_Witness ==
    /\ hist.switched
    /\ ~Has(sub.meta, UsedKey)
    /\ ~Has(sub.meta, TotalKey)
    /\ sub.meta.plan_type = "weekly-meal-plan"
    /\ sub.meta.customer_email = "a@x.com"
    /\ sub.meta.price_tier = "regular"
    /\ last.calls = {"retrieve", "update"}

\* C27: with checkout requests executed one after another, after a request
\* for an email that already had a customer is answered with 200, the
\* payment method of the request is attached to that customer and is its
\* default, and the email still has one customer.
C27_ExistingCustomerDefault ==
    ( /\ CoAlone
      /\ coLast.status = 200
      /\ "paymentMethods.attach" \in coLast.calls ) =>
        LET pm == coLast.req.body.payment_method_id.s
            email == coLast.req.body.customer_email.s
        IN  /\ customers[coLast.customer].email = email
            /\ customers[coLast.customer].default_payment_method = pm
            /\ pm \in customers[coLast.customer].methods
            /\ Cardinality(WithEmail(customers, email)) = 1

C27_Witness ==
    /\ CoAlone
    /\ coLast.status = 200
    /\ "paymentMethods.attach" \in coLast.calls
    /\ coLast.req.body.payment_method_id.s = "pm_2"
    /\ customers[coLast.customer].default_payment_method = "pm_2"
    /\ customers[coLast.customer].methods = {"pm_1", "pm_2"}

(***************************************************************************)
(* Properties of the webhook handler: concurrent runs, undecodable counters.*)
(***************************************************************************)
\* C28: with distinct successful-payment events handled by runs that may
\* interleave, once no run is in flight the counter equals the number of
\* events handled (none was lost), and the subscription has been switched
\* once 4 events are handled.
C28_NoLostIncrement ==
    (Alone /\ ~hist.redelivered) =>
        /\ (IsPromotional(sub.meta) /\ ~hist.switched) =>
              ParseField(sub.meta, UsedKey) = Num(hist.events)
        /\ hist.events >= 4 => hist.switched

Undecodable(meta) ==
    \/ Has(meta, UsedKey) /\ ParseField(meta, UsedKey).nan
    \/ Has(meta, TotalKey) /\ ParseField(meta, TotalKey).nan

\* C29: a subscription whose promotional_weeks_used or
\* promotional_weeks_total is present and is no integer is left as it is by
\* the handling of a successful-payment event (neither its metadata nor
\* its price is written).
C29_UndecodableLeftAlone ==
    [][ (Undecodable(sub.meta) /\ sub'.status = sub.status) =>
          sub' = sub ]_vars

\* C30: a verified successful-payment event whose invoice names no
\* subscription is answered with 200 without any platform call, and one
\* whose subscription was read without a promotional_weeks_used field is
\* answered with 200 after the read alone; in both cases the step that
\* answers leaves the subscription as it is.
C30_NonPromotionalUntouched ==
    /\ []( ( /\ last.status # 0
             /\ last.req.method = "POST"
             /\ last.req.sig = "valid"
             /\ env.STRIPE_WEBHOOK_SECRET
             /\ last.req.etype = "invoice.payment_succeeded"
             /\ ~last.req.hasSub ) =>
               (last.status = 200 /\ last.calls = {}) )
    /\ [][ ( /\ last' # last
             /\ last'.req.etype = "invoice.payment_succeeded"
             /\ ~last'.req.hasSub ) => sub' = sub ]_vars
    /\ [][ \A h \in Handlers :
             ( /\ wh[h].pc = "retrieved"
               /\ wh'[h].pc = "idle"
               /\ ~Has(wh[h].snap, UsedKey) ) =>
                 /\ last'.status = 200
                 /\ last'.calls = {"retrieve"}
                 /\ sub' = sub ]_vars

C30_Witness ==
    /\ hist.switched
    /\ ~Has(sub.meta, UsedKey)
    /\ sub.meta.price_tier = "regular"
    /\ last.req.etype = "invoice.payment_succeeded"
    /\ last.req.hasSub
    /\ last.calls = {"retrieve"}
    /\ last.status = 200

(***************************************************************************)
(* Properties of the version with the helper createPromotionalCoupon.      *)
(***************************************************************************)
\* the answered request called subscriptions.create after the helper had
\* returned null
HelperReturnedNull ==
    /\ "subscriptions.create" \in coLast.calls
    /\ coLast.coupon = ""

\* C31 (the version with the helper): when createPromotionalCoupon returned
\* null because coupons.list or coupons.create failed, the
\* subscriptions.create request contains no discount entry, and in
\* particular none whose coupon is null.
C31_NoDiscountWithoutCoupon ==
    HelperReturnedNull => coLast.discounts = {}

====
